---- MODULE Spec2Model ----
(***************************************************************************)
(* A model of the software rasterizer of src/3d-agon: texturing.h (mesh    *)
(* construction, buffer preparation, projection, scan conversion, depth    *)
(* test, texture shading), objimporter.h (ParseObj) and the frame loop of  *)
(* x11viewer.cpp.                                                          *)
(*                                                                         *)
(* Numbers.  A C float is modelled by an exact rational <<n, d>> with      *)
(* d > 0 in lowest terms, so rounding is not modelled.  The IEEE special   *)
(* values are modelled where the code can produce them from the inputs of  *)
(* this model: the inverse of a zero area (an infinity) and the weights    *)
(* computed from it (infinities and NaN).                                  *)
(*                                                                         *)
(* Pointers.  A C array pointer is a record [null, arr]: NullPtr, or       *)
(* Ptr(s) for an allocated array holding the sequence s (element k of the  *)
(* C array is s[k+1]).                                                     *)
(***************************************************************************)
EXTENDS Integers, Sequences, FiniteSets, TLC

\* ------------------------------------------------------------ bounds
\* Output extent of the context (x11viewer.cpp uses 640 x 320).
Width == 4
Height == 3
\* Largest number of meshes handed to render.
MaxMeshes == 2

\* ------------------------------------------------- float arithmetic
Abs(a) == IF a < 0 THEN -a ELSE a

RECURSIVE Gcd(_, _)
Gcd(a, b) == IF b = 0 THEN a ELSE Gcd(b, a % b)

\* The rational n/d (d # 0) in lowest terms with a positive denominator.
R(n, d) ==
    LET g == Gcd(Abs(n), Abs(d))
        s == IF d < 0 THEN -1 ELSE 1
    IN  <<(s * n) \div g, (s * d) \div g>>

I(n) == <<n, 1>>

RAdd(a, b) == R(a[1] * b[2] + b[1] * a[2], a[2] * b[2])
RSub(a, b) == R(a[1] * b[2] - b[1] * a[2], a[2] * b[2])
RMul(a, b) == R(a[1] * b[1], a[2] * b[2])
\* a / b for b # 0.
RDiv(a, b) == R(a[1] * b[2], a[2] * b[1])
RNeg(a) == <<-a[1], a[2]>>
RLt(a, b) == a[1] * b[2] < b[1] * a[2]
RGt(a, b) == RLt(b, a)
RIsZero(a) == a[1] = 0
RSign(a) == IF a[1] > 0 THEN 1 ELSE IF a[1] < 0 THEN -1 ELSE 0

\* The macros MIN and MAX of texturing.h.
MIN(a, b) == IF RLt(a, b) THEN a ELSE b
MAX(a, b) == IF RGt(a, b) THEN a ELSE b
IMIN(a, b) == IF a < b THEN a ELSE b
\* A MAX that does not clamp: its second argument.
IMaxSecond(a, b) == b
IMAX(a, b) == IF a > b THEN a ELSE b

\* fminf on finite arguments.
Fminf(a, b) == IF RLt(b, a) THEN b ELSE a

\* The C conversion (int)f of a finite float: truncation toward zero.
ToInt(a) == IF a[1] >= 0 THEN a[1] \div a[2] ELSE -((-a[1]) \div a[2])

\* ------------------------------------------------------- pointers
NullPtr == [null |-> TRUE, arr |-> <<>>]
Ptr(s) == [null |-> FALSE, arr |-> s]

\* ------------------------------------------- objimporter.h: ParseObj
\* uint32_t(x) of an int, as its two 16-bit halves <<high, low>>, and the int
\* read back from those four bytes (create_mesh copies the uint32_t indices
\* into int arrays with memcpy).
ToU32(x) == <<(x \div 65536) % 65536, x % 65536>>
ToI32(u) == (IF u[1] >= 32768 THEN u[1] - 65536 ELSE u[1]) * 65536 + u[2]

\* A line of an OBJ file: type "v", "vt", "vn" with coordinates xyz, or
\* type "f" with its tuples.  A tuple v/vt/vn has the integer v and, for
\* each of vt and vn, <<>> (part absent or empty) or <<n>>.
VLine(x, y, z) == [type |-> "v", xyz |-> <<x, y, z>>, tuples |-> <<>>]
VtLine(x, y) == [type |-> "vt", xyz |-> <<x, y>>, tuples |-> <<>>]
VnLine(x, y, z) == [type |-> "vn", xyz |-> <<x, y, z>>, tuples |-> <<>>]
FLine(ts) == [type |-> "f", xyz |-> <<>>, tuples |-> ts]
Tup(v, vt) == [v |-> v, vt |-> vt, vn |-> <<>>]

EmptyObjData ==
    [vertices |-> <<>>, face_indices |-> <<>>, normals |-> <<>>,
     normal_indices |-> <<>>, uvs |-> <<>>, uv_indices |-> <<>>]

ParseFaceVertex(tuple) ==
    [vertex_index |-> tuple.v - 1,
     st_coord_index |-> IF tuple.vt # <<>> THEN tuple.vt[1] - 1 ELSE -1,
     normal_index |-> IF tuple.vn # <<>> THEN tuple.vn[1] - 1 ELSE -1]

\* The effect on data of the tuples k..Len(ts) of one "f" line.
RECURSIVE ParseFaceTuples(_, _, _)
ParseFaceTuples(data, ts, k) ==
    IF k > Len(ts) THEN data
    ELSE LET fv == ParseFaceVertex(ts[k])
             d1 == [data EXCEPT !.face_indices = Append(@, ToU32(fv.vertex_index))]
             d2 == IF fv.st_coord_index # -1
                   THEN [d1 EXCEPT !.uv_indices = Append(@, ToU32(fv.st_coord_index))]
                   ELSE d1
             d3 == IF fv.normal_index # -1
                   THEN [d2 EXCEPT !.normal_indices = Append(@, ToU32(fv.normal_index))]
                   ELSE d2
         IN  ParseFaceTuples(d3, ts, k + 1)

\* One iteration of the while loop of ParseObj.
ParseLine(data, line) ==
    CASE line.type = "v" -> [data EXCEPT !.vertices = Append(@, line.xyz)]
      [] line.type = "vt" -> [data EXCEPT !.uvs = Append(@, line.xyz)]
      [] line.type = "vn" -> [data EXCEPT !.normals = Append(@, line.xyz)]
      [] line.type = "f" -> ParseFaceTuples(data, line.tuples, 1)
      [] OTHER -> data

RECURSIVE ParseLines(_, _, _)
ParseLines(data, lines, k) ==
    IF k > Len(lines) THEN data
    ELSE ParseLines(ParseLine(data, lines[k]), lines, k + 1)

ParseObj(lines) == ParseLines(EmptyObjData, lines, 1)

\* --------------------------------------------- texturing.h: context
\* point_mat_mult: xp = p * m, m the 16 floats m[0..15] (here m[k] is m[k+1]).
point_mat_mult(p, m) ==
    <<RAdd(RAdd(RAdd(RMul(m[1], p[1]), RMul(m[5], p[2])), RMul(m[9], p[3])), m[13]),
      RAdd(RAdd(RAdd(RMul(m[2], p[1]), RMul(m[6], p[2])), RMul(m[10], p[3])), m[14]),
      RAdd(RAdd(RAdd(RMul(m[3], p[1]), RMul(m[7], p[2])), RMul(m[11], p[3])), m[15])>>

\* context_init: the context derived from the camera.  tanHalfFov stands for
\* tanf(fov * M_PI / 180 / 2), a rational for the field of view chosen.
context_init(extent, camera) ==
    LET t == RMul(camera.nearClip, camera.tanHalfFov)
        r == RMul(t, camera.aspectRatio)
    IN  [extent |-> extent,
         znear |-> camera.nearClip,
         zfar |-> camera.farClip,
         screen_coordinates |-> [r |-> r, l |-> RNeg(r), t |-> t, b |-> RNeg(t)],
         world_to_cam |-> camera.worldToCamera]

ArraySize(context) == context.extent.width * context.extent.height

\* prepare_buffers with both allocations succeeding: the two buffers.
prepare_buffers(context) ==
    [depth_buffer |-> [k \in 0 .. ArraySize(context) - 1 |-> context.zfar],
     color_buffer |-> [k \in 0 .. ArraySize(context) - 1 |-> 0]]

\* ------------------------------------- texturing.h: textures, meshes
\* A texture file: whether fopen succeeds, and the bytes fread can deliver.
\* image is the struct as it is before the call.
set_texture(image, file, width, height) ==
    IF ~file.exists THEN image
    ELSE [image EXCEPT
            !.width = width,
            !.height = height,
            !.data = IF Len(file.bytes) < width * height
                     THEN NullPtr
                     ELSE Ptr(SubSeq(file.bytes, 1, width * height))]

\* create_mesh with every allocation succeeding.  uninit is the value the
\* freshly malloc'ed struct image holds in the fields create_mesh does not set.
create_mesh(context, objData, tex, uninit) ==
    LET num_faces == Len(objData.face_indices)
        hasUv == objData.uvs # <<>>
    IN  [num_triangles |-> num_faces \div 3,
         points |-> Ptr([k \in 1 .. Len(objData.vertices) |->
                           point_mat_mult(objData.vertices[k], context.world_to_cam)]),
         face_vertex_indices |-> Ptr([k \in 1 .. num_faces |->
                                        ToI32(objData.face_indices[k])]),
         st |-> [coords |-> IF hasUv THEN Ptr(objData.uvs) ELSE NullPtr,
                 indices |-> IF hasUv
                             THEN Ptr([k \in 1 .. Len(objData.uv_indices) |->
                                         ToI32(objData.uv_indices[k])])
                             ELSE NullPtr],
         shader |-> [image_ptr |->
                       set_texture([null |-> FALSE, width |-> uninit,
                                    height |-> uninit, data |-> NullPtr],
                                   tex.file, tex.width, tex.height)]]

\* ----------------------------------------- texturing.h: projection
persp_divide(p, znear) ==
    LET inv_z == RDiv(I(1), RNeg(p[3]))
    IN  <<RMul(RMul(p[1], inv_z), znear), RMul(RMul(p[2], inv_z), znear), RNeg(p[3])>>

to_raster(coords, extent, p) ==
    LET inv_width == RDiv(I(1), RSub(coords.r, coords.l))
        inv_height == RDiv(I(1), RSub(coords.t, coords.b))
        x == RSub(RMul(RMul(I(2), p[1]), inv_width),
                  RMul(RAdd(coords.r, coords.l), inv_width))
        y == RSub(RMul(RMul(I(2), p[2]), inv_height),
                  RMul(RAdd(coords.t, coords.b), inv_height))
    IN  <<RMul(RMul(RAdd(x, I(1)), R(1, 2)), I(extent.width)),
          RMul(RMul(RSub(I(1), y), R(1, 2)), I(extent.height)),
          p[3]>>

\* tri_bbox: <<bbox[0], bbox[1], bbox[2], bbox[3]>>.
tri_bbox(p0, p1, p2) ==
    <<MIN(MIN(p0[1], p1[1]), p2[1]), MIN(MIN(p0[2], p1[2]), p2[2]),
      MAX(MAX(p0[1], p1[1]), p2[1]), MAX(MAX(p0[2], p1[2]), p2[2])>>

edge(a, b, test) ==
    RSub(RMul(RSub(test[1], a[1]), RSub(b[2], a[2])),
         RMul(RSub(test[2], a[2]), RSub(b[1], a[1])))

\* ------------------------------- IEEE values the zero area produces
\* Whether edge(a, b, test), when it is zero, is the float -0: both
\* products are zero, the first is -0 and the second is +0.  A difference
\* of equal floats is +0, so a zero product is -0 iff its other factor is
\* negative.
EdgeIsNegZero(a, b, test) ==
    LET f1 == RSub(test[1], a[1])
        f2 == RSub(b[2], a[2])
        g1 == RSub(test[2], a[2])
        g2 == RSub(b[1], a[1])
    IN  /\ RIsZero(RMul(f1, f2))
        /\ RIsZero(RMul(g1, g2))
        /\ RSign(f1) < 0 \/ RSign(f2) < 0
        /\ ~(RSign(g1) < 0 \/ RSign(g2) < 0)

\* 1.0f / area: finite, or an infinity when area is +0 or -0.
InvArea(area, negZero) ==
    IF ~RIsZero(area) THEN [k |-> "fin", v |-> RDiv(I(1), area)]
    ELSE [k |-> IF negZero THEN "ninf" ELSE "pinf", v |-> I(0)]

\* A weight that is the edge function over the magnitude of the area.
WeightByMagnitude(e, inv_area) ==
    IF inv_area.k = "fin"
    THEN [k |-> "fin", v |-> RMul(e, <<Abs(inv_area.v[1]), inv_area.v[2]>>)]
    ELSE [k |-> IF RSign(e) > 0 THEN "pinf" ELSE IF RSign(e) < 0 THEN "ninf" ELSE "nan",
          v |-> I(0)]

\* e * inv_area for a finite e.
Weight(e, inv_area) ==
    IF inv_area.k = "fin" THEN [k |-> "fin", v |-> RMul(e, inv_area.v)]
    ELSE LET s == RSign(e) * (IF inv_area.k = "ninf" THEN -1 ELSE 1)
         IN  [k |-> IF s > 0 THEN "pinf" ELSE IF s < 0 THEN "ninf" ELSE "nan",
              v |-> I(0)]

\* w >= 0 (false for NaN).
GeZero(w) == w.k = "pinf" \/ (w.k = "fin" /\ ~RLt(w.v, I(0)))

\* The coverage test of rasterize.
Inside(w0, w1, w2) == GeZero(w0) /\ GeZero(w1) /\ GeZero(w2)

\* z = 1 / (w0/p0.z + w1/p1.z + w2/p2.z) for weights that passed the
\* coverage test and depths p.z > 0: a float, or +infinity when the sum is 0.
\* Infinite weights give an infinite sum, whose inverse is 0.
InterpZ(w0, w1, w2, p0, p1, p2) ==
    IF w0.k = "fin" /\ w1.k = "fin" /\ w2.k = "fin"
    THEN LET one_over_z == RAdd(RAdd(RDiv(w0.v, p0[3]), RDiv(w1.v, p1[3])),
                                RDiv(w2.v, p2[3]))
         IN  IF RIsZero(one_over_z) THEN [k |-> "pinf", v |-> I(0)]
             ELSE [k |-> "fin", v |-> RDiv(I(1), one_over_z)]
    ELSE [k |-> "fin", v |-> I(0)]

\* A Z-buffer test that lets the farther fragment through.
DepthTestFarther(z, stored) == z.k = "fin" /\ RGt(z.v, stored)

\* A Z-buffer test that also lets a fragment of equal depth through.
DepthTestOrEqual(z, stored) == z.k = "fin" /\ ~RLt(stored, z.v)

\* The Z-buffer test z < depth_buffer[index].
DepthTest(z, stored) == z.k = "fin" /\ RLt(z.v, stored)

\* An interpolation that lacks the final multiplication by z.
InterpSTNoDepth(w0, w1, w2, st0, st1, st2, z) ==
    IF w0.k = "fin" /\ w1.k = "fin" /\ w2.k = "fin"
    THEN [k |-> "fin",
          s |-> RAdd(RAdd(RMul(st0[1], w0.v), RMul(st1[1], w1.v)), RMul(st2[1], w2.v)),
          t |-> RAdd(RAdd(RMul(st0[2], w0.v), RMul(st1[2], w1.v)), RMul(st2[2], w2.v))]
    ELSE [k |-> "nan", s |-> I(0), t |-> I(0)]

\* st.s and st.t of rasterize; NaN when a weight is infinite (inf * 0).
InterpST(w0, w1, w2, st0, st1, st2, z) ==
    IF w0.k = "fin" /\ w1.k = "fin" /\ w2.k = "fin"
    THEN [k |-> "fin",
          s |-> RMul(RAdd(RAdd(RMul(st0[1], w0.v), RMul(st1[1], w1.v)),
                          RMul(st2[1], w2.v)), z.v),
          t |-> RMul(RAdd(RAdd(RMul(st0[2], w0.v), RMul(st1[2], w1.v)),
                          RMul(st2[2], w2.v)), z.v)]
    ELSE [k |-> "nan", s |-> I(0), t |-> I(0)]

\* ------------------------------------------------ texturing.h: shade
\* (int)fminf(c * size, size - 1); fminf of a NaN is its other argument.
TexelCoord(isNan, c, size) ==
    IF isNan THEN size - 1 ELSE ToInt(Fminf(RMul(c, I(size)), I(size - 1)))

\* shade: what it does to *ci.  ub is the outcome of undefined behaviour
\* (a read through a null data pointer or outside the texture array): the
\* process dies, or the read yields the byte ub.val.
shade(shader, st, ci, ub) ==
    IF shader.image_ptr.null
    THEN [ci |-> ci, wrote |-> FALSE, fault |-> FALSE, crashed |-> FALSE, texel |-> <<>>]
    ELSE LET image == shader.image_ptr
             tx == TexelCoord(st.k = "nan", st.s, image.width)
             ty == TexelCoord(st.k = "nan", st.t, image.height)
             at == ty * image.width + tx
             ok == ~image.data.null /\ at >= 0 /\ at < Len(image.data.arr)
             rd == <<[x |-> tx, y |-> ty, width |-> image.width,
                      height |-> image.height, null |-> image.data.null]>>
         IN  IF ok
             THEN [ci |-> image.data.arr[at + 1], wrote |-> TRUE, fault |-> FALSE,
                   crashed |-> FALSE, texel |-> rd]
             ELSE IF ub.crash
             THEN [ci |-> ci, wrote |-> FALSE, fault |-> TRUE, crashed |-> TRUE,
                   texel |-> rd]
             ELSE [ci |-> ub.val, wrote |-> TRUE, fault |-> TRUE, crashed |-> FALSE,
                   texel |-> rd]

\* -------------------------------------------- texturing.h: rasterize
\* The body of the two nested loops of rasterize for pixel (i, j): acc holds
\* the two buffers and a record of what the loop has done so far.
RasterPixel(acc, i, j, a) ==
    LET index == j * a.width + i
        sample == <<RAdd(I(i), R(1, 2)), RAdd(I(j), R(1, 2)), I(0)>>
        w0 == Weight(edge(a.p1, a.p2, sample), a.inv_area)
        w1 == Weight(edge(a.p2, a.p0, sample), a.inv_area)
        w2 == Weight(edge(a.p0, a.p1, sample), a.inv_area)
        z == InterpZ(w0, w1, w2, a.p0, a.p1, a.p2)
    IN  IF ~Inside(w0, w1, w2) THEN acc
        ELSE IF index \notin DOMAIN acc.depth_buffer
        THEN \* an index outside the two arrays: undefined behaviour
             [acc EXCEPT
                !.shaded = @ \cup {[index |-> index, col |-> i, row |-> j,
                                    st |-> [k |-> "nan", s |-> I(0), t |-> I(0)]]},
                !.faults = @ \cup {index},
                !.crashed = a.ub.crash]
        ELSE IF ~DepthTest(z, acc.depth_buffer[index])
        THEN [acc EXCEPT
                !.covered = @ \cup {index},
                !.ties = IF z.k = "fin" /\ z.v = acc.depth_buffer[index]
                         THEN @ \cup {index} ELSE @]
        ELSE LET st == InterpST(w0, w1, w2, a.st0, a.st1, a.st2, z)
                 sh == shade(a.shader, st, acc.color_buffer[index], a.ub)
             IN  [acc EXCEPT
                    !.covered = @ \cup {index},
                    !.depth_buffer[index] = z.v,
                    !.depthWrites = @ \cup {index},
                    !.shaded = @ \cup {[index |-> index, col |-> i, row |-> j,
                                        st |-> st]},
                    !.color_buffer[index] = sh.ci,
                    !.colorWrites = IF sh.wrote THEN @ \cup {index} ELSE @,
                    !.texelReads = @ \cup {[index |-> index, texel |-> sh.texel[m]]
                                            : m \in DOMAIN sh.texel},
                    !.faults = IF sh.fault THEN @ \cup {index} ELSE @,
                    !.crashed = sh.crashed]

\* The loops of rasterize from pixel number k of the range [x0,x1] x [y0,y1],
\* row by row; a crash ends them.
RECURSIVE RasterLoop(_, _, _)
RasterLoop(acc, k, a) ==
    LET nx == a.x1 - a.x0 + 1
        ny == a.y1 - a.y0 + 1
    IN  IF nx <= 0 \/ ny <= 0 \/ k >= nx * ny \/ acc.crashed THEN acc
        ELSE RasterLoop(RasterPixel(acc, a.x0 + (k % nx), a.y0 + (k \div nx), a),
                        k + 1, a)

\* What a triangle step has done when it has not reached rasterize.
NoRaster(depth, color) ==
    [depth_buffer |-> depth, color_buffer |-> color, crashed |-> FALSE,
     covered |-> {}, depthWrites |-> {}, colorWrites |-> {}, texelReads |-> {},
     shaded |-> {}, faults |-> {}, ties |-> {}, divArea |-> "none"]

rasterize(x0, y0, x1, y1, p0, p1, p2, st0, st1, st2, mesh, context, depth, color, ub) ==
    LET area == edge(p0, p1, p2)
        inv_area == InvArea(area, EdgeIsNegZero(p0, p1, p2))
        a == [x0 |-> x0, y0 |-> y0, x1 |-> x1, y1 |-> y1,
              p0 |-> p0, p1 |-> p1, p2 |-> p2,
              st0 |-> st0, st1 |-> st1, st2 |-> st2,
              inv_area |-> inv_area, shader |-> mesh.shader,
              width |-> context.extent.width, ub |-> ub]
        start == [NoRaster(depth, color) EXCEPT
                    !.divArea = IF RIsZero(area) THEN "zero" ELSE "nonzero"]
    IN  RasterLoop(start, 0, a)

\* ----------------------------------------------- texturing.h: render
\* A rejection test that lacks the comparison of the right edge of the
\* bounding box with 0.
RejectedNoLeft(bbox, extent) ==
    \/ RGt(bbox[1], I(extent.width - 1))
    \/ RGt(bbox[2], I(extent.height - 1))
    \/ RLt(bbox[4], I(0))

\* The bounding-box rejection test of render.
Rejected(bbox, extent) ==
    \/ RGt(bbox[1], I(extent.width - 1))
    \/ RLt(bbox[3], I(0))
    \/ RGt(bbox[2], I(extent.height - 1))
    \/ RLt(bbox[4], I(0))

\* The raster-space copies p0, p1, p2 of triangle j of mesh.
RasterPoints(context, mesh, j) ==
    [m \in 1 .. 3 |->
       to_raster(context.screen_coordinates, context.extent,
                 persp_divide(mesh.points.arr[mesh.face_vertex_indices.arr[3 * j + m] + 1],
                              context.znear))]

\* A render whose persp_divide and to_raster are handed the addresses of the
\* mesh's own points instead of copies.
ProjectInPlace(mesh, j, p) ==
    [mesh EXCEPT !.points.arr =
       [k \in DOMAIN @ |->
          IF \E m \in 1 .. 3 : mesh.face_vertex_indices.arr[3 * j + m] + 1 = k
          THEN p[CHOOSE m \in 1 .. 3 : mesh.face_vertex_indices.arr[3 * j + m] + 1 = k]
          ELSE @[k]]]

\* The mesh after render has projected triangle j to p and divided its UVs
\* by the depths: p0, p1, p2 and st0, st1, st2 are local copies, persp_divide
\* and to_raster are handed their addresses, and the mesh is const.
MeshAfterProjection(mesh, j, p) == mesh

\* mesh->st.coords[sti[m]] for the m-th corner of triangle j.  The read is
\* undefined when sti or coords is null or an index is outside its array;
\* then (if the process survives) the value read is arbitrary.
UVRead(mesh, j, m, ub) ==
    LET n == 3 * j + m
        indices == mesh.st.indices
        coords == mesh.st.coords
        idxOk == ~indices.null /\ n < Len(indices.arr)
        idx == IF idxOk THEN indices.arr[n + 1] ELSE ub.val
        ok == idxOk /\ ~coords.null /\ idx >= 0 /\ idx < Len(coords.arr)
    IN  [fault |-> ~ok,
         nullAccess |-> indices.null \/ coords.null,
         st |-> IF ok THEN coords.arr[idx + 1] ELSE <<I(ub.val), I(ub.val)>>]

\* One iteration of the inner loop of render, for triangle j of mesh: the
\* buffers it leaves and a record of what it did.
RenderBody(context, mesh, j, depth, color, ub) ==
    LET p == RasterPoints(context, mesh, j)
        bbox == tri_bbox(p[1], p[2], p[3])
        none == [NoRaster(depth, color) EXCEPT !.crashed = FALSE]
    IN  IF Rejected(bbox, context.extent)
        THEN [raster |-> none, p |-> p, rejected |-> TRUE,
              uvRead |-> FALSE, uvFault |-> FALSE, uvNull |-> FALSE,
              mesh |-> MeshAfterProjection(mesh, j, p)]
        ELSE LET x0 == IMAX(0, ToInt(bbox[1]))
                 y0 == IMAX(0, ToInt(bbox[2]))
                 x1 == IMIN(context.extent.width - 1, ToInt(bbox[3]))
                 y1 == IMIN(context.extent.height - 1, ToInt(bbox[4]))
                 r0 == UVRead(mesh, j, 0, ub)
                 r1 == UVRead(mesh, j, 1, ub)
                 r2 == UVRead(mesh, j, 2, ub)
                 fault == r0.fault \/ r1.fault \/ r2.fault
                 st0 == <<RDiv(r0.st[1], p[1][3]), RDiv(r0.st[2], p[1][3])>>
                 st1 == <<RDiv(r1.st[1], p[2][3]), RDiv(r1.st[2], p[2][3])>>
                 st2 == <<RDiv(r2.st[1], p[3][3]), RDiv(r2.st[2], p[3][3])>>
             IN  [raster |-> IF fault /\ ub.crash
                             THEN [none EXCEPT !.crashed = TRUE]
                             ELSE rasterize(x0, y0, x1, y1, p[1], p[2], p[3],
                                            st0, st1, st2, mesh, context,
                                            depth, color, ub),
                  p |-> p, rejected |-> FALSE,
                  uvRead |-> TRUE, uvFault |-> fault,
                  uvNull |-> r0.nullAccess \/ r1.nullAccess \/ r2.nullAccess,
                  mesh |-> MeshAfterProjection(mesh, j, p)]

\* Whether an iteration ran into undefined behaviour.  An iteration that did
\* not is the same under every outcome of undefined behaviour.
Faulted(b) == b.uvFault \/ b.raster.faults # {} \/ b.raster.crashed

\* ------------------------------------------ x11viewer.cpp: the blit
\* decode_pixel and the ARGB word drawBufferToWindow stores for a pixel.
decode_pixel(pixel) ==
    LET mapping == <<0, 85, 170, 255>>
        a == (pixel \div 64) % 4
        b == (pixel \div 16) % 4
        g == (pixel \div 4) % 4
        r == pixel % 4
    IN  <<mapping[r + 1], mapping[g + 1], mapping[b + 1], mapping[a + 1]>>

ArgbWord(pixel) ==
    LET rgba == decode_pixel(pixel)
    IN  rgba[4] * 16777216 + rgba[1] * 65536 + rgba[2] * 256 + rgba[3]

\* --------------------------------------------------------- the inputs
\* The camera handed to context_init: near and far clip, a field of view of
\* 90 degrees (tan(fov/2) = 1), the aspect ratio main() computes from the
\* extent, and the world-to-camera matrix of a camera at (0, 0, 1).
Camera ==
    [nearClip |-> I(1), farClip |-> I(4), tanHalfFov |-> I(1),
     aspectRatio |-> R(Width, Height),
     worldToCamera |-> <<I(1), I(0), I(0), I(0),
                         I(0), I(1), I(0), I(0),
                         I(0), I(0), I(1), I(0),
                         I(0), I(0), I(-1), I(1)>>]

\* The "v" line of the world-space point that lies at depth d in front of
\* the camera and projects onto the screen point (a/6, b/6): with the extent
\* 4 x 3 its raster position is (a/4 + 2, 3/2 - b/4).
V(a, b, d) == VLine(R(a * d, 6), R(b * d, 6), I(1 - d))

F3(t) == FLine(<<Tup(t[1], <<t[1]>>), Tup(t[2], <<t[2]>>), Tup(t[3], <<t[3]>>)>>)

UnitUVs == <<VtLine(I(0), I(0)), VtLine(I(1), I(0)), VtLine(I(0), I(1))>>

\* One triangle in the upper left corner of the image, at depth d: raster
\* corners (0, 0), (2.5, 0), (0, 2.5).
BigTriangle(d) == <<V(-8, 6, d), V(2, 6, d), V(-8, -4, d)>>

ObjBig == BigTriangle(2) \o UnitUVs \o <<F3(<<1, 2, 3>>)>>

\* Two triangles: one at depth 1 with raster corners (1, 0), (1, 2), (3, 0),
\* wound the other way round, and one over BigTriangle's pixels that is
\* tilted in depth (its corners at depths 1, 3 and 2).
ObjPair ==
    <<V(-4, 6, 1), V(-4, -2, 1), V(4, 6, 1), V(-8, 6, 1), V(2, 6, 3), V(-8, -4, 2)>>
    \o UnitUVs \o <<F3(<<1, 2, 3>>), FLine(<<Tup(4, <<1>>), Tup(5, <<2>>), Tup(6, <<3>>)>>)>>

\* A thin triangle inside the last pixel column, covering the centre of
\* pixel (3, 0): raster corners (3.25, 0.25), (3.75, 0.25), (3.5, 1).
ObjSliver == <<V(5, 5, 1), V(7, 5, 1), V(6, 2, 1)>> \o UnitUVs \o <<F3(<<1, 2, 3>>)>>

\* Four triangles: left of the image; three collinear points on the pixel
\* centres of the diagonal; beyond the far plane; and one that extends past
\* the four edges of the image, with raster corners (-2, -1), (6, 1),
\* (-2, 3.5), tilted in depth (depths 2, 3, 2) and carrying the same UV
\* (1, 0) at its three corners.
ObjMisc ==
    <<V(-16, 0, 1), V(-12, 0, 1), V(-12, 4, 1),
      V(-6, 4, 1), V(-2, 0, 1), V(2, -4, 1)>>
    \o BigTriangle(5)
    \o <<V(-16, 10, 2), V(16, 2, 3), V(-16, -8, 2)>>
    \o UnitUVs
    \o <<FLine(<<Tup(1, <<1>>), Tup(2, <<2>>), Tup(3, <<3>>)>>),
         FLine(<<Tup(4, <<1>>), Tup(5, <<2>>), Tup(6, <<3>>)>>),
         FLine(<<Tup(7, <<1>>), Tup(8, <<2>>), Tup(9, <<3>>)>>),
         FLine(<<Tup(10, <<2>>), Tup(11, <<2>>), Tup(12, <<2>>)>>)>>

\* Texture coordinates below 0 and above 1.
ObjWideUV ==
    BigTriangle(3)
    \o <<VtLine(I(-2), I(-2)), VtLine(I(3), I(-2)), VtLine(I(-2), I(3))>>
    \o <<F3(<<1, 2, 3>>)>>

\* No "vt" line and no texture index on the face.
ObjNoUV == BigTriangle(2) \o <<FLine(<<Tup(1, <<>>), Tup(2, <<>>), Tup(3, <<>>)>>)>>

\* Texture files of 2 x 2 texels: two complete ones, one a byte short, and a
\* file that cannot be opened.
Tex(exists, bytes) ==
    [file |-> [exists |-> exists, bytes |-> bytes], width |-> 2, height |-> 2]
TexA == Tex(TRUE, <<1, 2, 3, 4>>)
TexB == Tex(TRUE, <<5, 6, 7, 8>>)
TexShort == Tex(TRUE, <<1, 2, 3>>)
TexMissing == Tex(FALSE, <<>>)

MeshInput(lines, tex, uninit) == [lines |-> lines, tex |-> tex, uninit |-> uninit]

\* The meshes render is given: an OBJ file, a texture file, and the value of
\* the fields of struct image that stay uninitialised when fopen fails.
MeshInputs ==
    {MeshInput(ObjBig, TexA, 0), MeshInput(ObjBig, TexB, 0),
     MeshInput(ObjPair, TexA, 0), MeshInput(ObjSliver, TexA, 0),
     MeshInput(ObjMisc, TexB, 0), MeshInput(ObjWideUV, TexA, 0),
     MeshInput(ObjNoUV, TexA, 0), MeshInput(ObjBig, TexShort, 0),
     MeshInput(ObjBig, TexMissing, 0), MeshInput(ObjBig, TexMissing, 2)}

\* The outcomes of undefined behaviour: the process dies, or the read
\* yields an arbitrary value.
Crash == [crash |-> TRUE, val |-> 0]
UBChoices == {Crash, [crash |-> FALSE, val |-> 0], [crash |-> FALSE, val |-> 9]}

\* ----------------------------------------------------------- the state
VARIABLES
    context,       \* struct context without its two buffers
    depth_buffer,  \* context->depth_buffer, indexed 0 .. width*height-1
    color_buffer,  \* context->color_buffer
    meshes,        \* the meshes handed to render
    inputs,        \* the files the meshes were built from
    lineNo,        \* ParseObj: the number of lines read
    objData,       \* ParseObj: the ObjData filled so far
    pc,            \* where main() is: "render", "draw", "events", "done", "crashed"
    i,             \* render: the mesh index
    j,             \* render: the triangle index
    first,         \* whether mainLoop is in its first iteration
    image,         \* the XImage data drawBufferToWindow fills
    last,          \* what the last iteration of render's inner loop did
    call,          \* a single call of a function: the function and its arguments
    result,        \* what that call returned
    heap           \* the blocks malloc has handed out, and what became of them

vars == <<context, depth_buffer, color_buffer, meshes, inputs, lineNo, objData,
          pc, i, j, first, image, last, call, result, heap>>

\* The record of a triangle step.
StepLog(mi, tj, b) ==
    [i |-> mi, j |-> tj, p |-> b.p, rejected |-> b.rejected,
     uvRead |-> b.uvRead, uvFault |-> b.uvFault, uvNull |-> b.uvNull,
     divArea |-> b.raster.divArea, covered |-> b.raster.covered,
     depthWrites |-> b.raster.depthWrites, colorWrites |-> b.raster.colorWrites,
     texelReads |-> b.raster.texelReads, shaded |-> b.raster.shaded,
     faults |-> b.raster.faults,
     ties |-> b.raster.ties, crashed |-> b.raster.crashed]

NoStep ==
    [i |-> -1, j |-> -1, p |-> <<>>, rejected |-> FALSE,
     uvRead |-> FALSE, uvFault |-> FALSE, uvNull |-> FALSE,
     divArea |-> "none", covered |-> {}, depthWrites |-> {}, colorWrites |-> {},
     texelReads |-> {}, shaded |-> {}, faults |-> {}, ties |-> {}, crashed |-> FALSE]

\* No single call is under way.
NoCall == [op |-> "none"]

\* The pointer fields of struct context and struct mesh that own a block.
Fields ==
    {"depth_buffer", "color_buffer", "points", "face_vertex_indices", "coords",
     "indices", "shader", "image_ptr", "data"}

\* The heap before any malloc: every pointer field holds what its
\* uninitialised struct held.  ptr[f] is "uninit", "null" or "block" (the
\* block malloc returned for f), alloc[f] whether that block was handed out,
\* frees[f] how often it was freed; bad collects the invalid operations, and
\* dead is set when one of them ended the process.
NoHeap ==
    [ptr |-> [f \in Fields |-> "uninit"],
     alloc |-> [f \in Fields |-> FALSE],
     frees |-> [f \in Fields |-> 0],
     bad |-> {},
     dead |-> FALSE]

\* main() of x11viewer.cpp up to the call of mainLoop: context_init,
\* prepare_buffers, and ParseObj and create_mesh for every mesh.
Init ==
    /\ context = context_init([width |-> Width, height |-> Height], Camera)
    /\ depth_buffer = prepare_buffers(context).depth_buffer
    /\ color_buffer = prepare_buffers(context).color_buffer
    /\ \E n \in 1 .. MaxMeshes : inputs \in [1 .. n -> MeshInputs]
    /\ meshes = [k \in DOMAIN inputs |->
                   create_mesh(context, ParseObj(inputs[k].lines), inputs[k].tex,
                               inputs[k].uninit)]
    /\ lineNo = 0
    /\ objData = EmptyObjData
    /\ pc = "render"
    /\ i = 0
    /\ j = 0
    /\ first = TRUE
    /\ image = [k \in 0 .. ArraySize(context) - 1 |-> 0]
    /\ last = NoStep
    /\ call = NoCall
    /\ result = NoCall
    /\ heap = NoHeap

\* render: one iteration of the loop over the triangles of mesh i.
RenderTriangle ==
    /\ pc = "render"
    /\ i < Len(meshes)
    /\ j < meshes[i + 1].num_triangles
    /\ \E died \in {RenderBody(context, meshes[i + 1], j, depth_buffer, color_buffer,
                               Crash)} :
       \E ub \in (IF Faulted(died) THEN UBChoices ELSE {Crash}) :
       \E b \in {IF ub = Crash THEN died
                 ELSE RenderBody(context, meshes[i + 1], j, depth_buffer,
                                 color_buffer, ub)} :
         /\ depth_buffer' = b.raster.depth_buffer
         /\ color_buffer' = b.raster.color_buffer
         /\ last' = StepLog(i, j, b)
         /\ meshes' = [meshes EXCEPT ![i + 1] = b.mesh]
         /\ pc' = IF b.raster.crashed THEN "crashed" ELSE "render"
         /\ j' = IF b.raster.crashed THEN j ELSE j + 1
    /\ UNCHANGED <<context, inputs, lineNo, objData, i, first, image,
                   call, result, heap>>

\* render: the loop over the meshes moves on.
NextMesh ==
    /\ pc = "render"
    /\ i < Len(meshes)
    /\ j >= meshes[i + 1].num_triangles
    /\ i' = i + 1
    /\ j' = 0
    /\ UNCHANGED <<context, depth_buffer, color_buffer, meshes, inputs, lineNo, objData,
                   pc, first, image, last,
                   call, result, heap>>

\* render returns to mainLoop.
RenderReturn ==
    /\ pc = "render"
    /\ i = Len(meshes)
    /\ pc' = "draw"
    /\ UNCHANGED <<context, depth_buffer, color_buffer, meshes, inputs, lineNo, objData,
                   i, j, first, image, last,
                   call, result, heap>>

\* mainLoop: drawBufferToWindow.
DrawBufferToWindow ==
    /\ pc = "draw"
    /\ image' = [k \in DOMAIN color_buffer |-> ArgbWord(color_buffer[k])]
    /\ pc' = "events"
    /\ UNCHANGED <<context, depth_buffer, color_buffer, meshes, inputs, lineNo, objData,
                   i, j, first, last,
                   call, result, heap>>

\* mainLoop: the key 'q' was pressed.
QuitKey ==
    /\ pc = "events"
    /\ pc' = "done"
    /\ UNCHANGED <<context, depth_buffer, color_buffer, meshes, inputs, lineNo, objData,
                   i, j, first, image, last,
                   call, result, heap>>

\* mainLoop: no 'q' is pending; the loop calls render again.
NextFrame ==
    /\ pc = "events"
    /\ first' = FALSE
    /\ pc' = "render"
    /\ i' = 0
    /\ j' = 0
    /\ UNCHANGED <<context, depth_buffer, color_buffer, meshes, inputs, lineNo, objData,
                   image, last,
                   call, result, heap>>

Next ==
    \/ RenderTriangle
    \/ NextMesh
    \/ RenderReturn
    \/ DrawBufferToWindow
    \/ QuitKey
    \/ NextFrame

Spec == Init /\ [][Next]_vars

\* ------------------------------------------- the import of one mesh
\* OBJ files ParseObj accepts beside the ones above: a face of four
\* vertices; "vt" lines with a face whose last tuple has no texture index;
\* a face naming a vertex the file does not have; a face with the index 0.
ObjQuad ==
    <<V(-8, 6, 3), V(2, 6, 3), V(2, -4, 3), V(-8, -4, 3)>>
    \o UnitUVs \o <<VtLine(I(1), I(1))>>
    \o <<FLine(<<Tup(1, <<1>>), Tup(2, <<2>>), Tup(3, <<4>>), Tup(4, <<3>>)>>)>>

ObjPartUV ==
    BigTriangle(2) \o UnitUVs
    \o <<FLine(<<Tup(1, <<1>>), Tup(2, <<2>>), Tup(3, <<>>)>>)>>

ObjBadVertex ==
    BigTriangle(2) \o UnitUVs
    \o <<FLine(<<Tup(1, <<1>>), Tup(2, <<2>>), Tup(9, <<3>>)>>)>>

ObjZeroIndex ==
    BigTriangle(2) \o UnitUVs
    \o <<FLine(<<Tup(0, <<1>>), Tup(2, <<2>>), Tup(3, <<7>>)>>)>>

ImportInputs ==
    MeshInputs \cup
    {MeshInput(ObjQuad, TexB, 0), MeshInput(ObjPartUV, TexA, 0),
     MeshInput(ObjBadVertex, TexA, 0), MeshInput(ObjZeroIndex, TexA, 0)}

\* main() before ParseObj: the context is ready, no mesh is built yet.
InitImport ==
    /\ context = context_init([width |-> Width, height |-> Height], Camera)
    /\ depth_buffer = prepare_buffers(context).depth_buffer
    /\ color_buffer = prepare_buffers(context).color_buffer
    /\ inputs \in [1 .. 1 -> ImportInputs]
    /\ meshes = <<>>
    /\ lineNo = 0
    /\ objData = EmptyObjData
    /\ pc = "parse"
    /\ i = 0
    /\ j = 0
    /\ first = TRUE
    /\ image = [k \in 0 .. ArraySize(context) - 1 |-> 0]
    /\ last = NoStep
    /\ call = NoCall
    /\ result = NoCall
    /\ heap = NoHeap

\* ParseObj: one iteration of its while loop.
ParseStep ==
    /\ pc = "parse"
    /\ lineNo < Len(inputs[1].lines)
    /\ objData' = ParseLine(objData, inputs[1].lines[lineNo + 1])
    /\ lineNo' = lineNo + 1
    /\ UNCHANGED <<context, depth_buffer, color_buffer, meshes, inputs, pc, i, j,
                   first, image, last,
                   call, result, heap>>

\* ParseObj returns at the end of the file, and main() calls create_mesh.
CreateMesh ==
    /\ pc = "parse"
    /\ lineNo = Len(inputs[1].lines)
    /\ meshes' = <<create_mesh(context, objData, inputs[1].tex, inputs[1].uninit)>>
    /\ pc' = "created"
    /\ UNCHANGED <<context, depth_buffer, color_buffer, inputs, lineNo, objData, i, j,
                   first, image, last,
                   call, result, heap>>

NextImport ==
    \/ ParseStep
    \/ CreateMesh

SpecImport == InitImport /\ [][NextImport]_vars

\* ------------------------------------------------------- properties
\* Geometry the properties are stated with, in exact arithmetic and apart
\* from the code: the pixels, the centre of a pixel, whether a triangle with
\* raster corners p covers that centre, and the perspective-correct depth of
\* the triangle there.
Pixels == 0 .. ArraySize(context) - 1

Centre(k) ==
    <<RAdd(I(k % context.extent.width), R(1, 2)),
      RAdd(I(k \div context.extent.width), R(1, 2)), I(0)>>

CoversPixel(p, k) ==
    LET area == edge(p[1], p[2], p[3])
    IN  /\ ~RIsZero(area)
        /\ RSign(edge(p[2], p[3], Centre(k))) * RSign(area) >= 0
        /\ RSign(edge(p[3], p[1], Centre(k))) * RSign(area) >= 0
        /\ RSign(edge(p[1], p[2], Centre(k))) * RSign(area) >= 0

DepthAt(p, k) ==
    LET area == edge(p[1], p[2], p[3])
        b0 == RDiv(edge(p[2], p[3], Centre(k)), area)
        b1 == RDiv(edge(p[3], p[1], Centre(k)), area)
        b2 == RDiv(edge(p[1], p[2], Centre(k)), area)
    IN  RDiv(I(1), RAdd(RAdd(RDiv(b0, p[1][3]), RDiv(b1, p[2][3])), RDiv(b2, p[3][3])))

\* The raster corners of every triangle of the scene.
ScenePoints ==
    UNION {{RasterPoints(context, meshes[m], t) : t \in 0 .. meshes[m].num_triangles - 1}
           : m \in 1 .. Len(meshes)}

\* render is about to process triangle j of mesh i; its raster corners.
HasTriangle == pc = "render" /\ i < Len(meshes) /\ j < meshes[i + 1].num_triangles

CurPoints == RasterPoints(context, meshes[i + 1], j)

\* The bounding box of p does not meet the image [0, width) x [0, height).
OutsideImage(p) ==
    LET bbox == tri_bbox(p[1], p[2], p[3])
    IN  \/ RLt(bbox[3], I(0))
        \/ RLt(bbox[4], I(0))
        \/ ~RLt(bbox[1], I(context.extent.width))
        \/ ~RLt(bbox[2], I(context.extent.height))

\* Every corner of p lies in the image rectangle, in front of the far plane.
InViewport(p) ==
    \A m \in 1 .. 3 :
       /\ ~RLt(p[m][1], I(0)) /\ ~RGt(p[m][1], I(context.extent.width))
       /\ ~RLt(p[m][2], I(0)) /\ ~RGt(p[m][2], I(context.extent.height))
       /\ RLt(p[m][3], context.zfar)

\* The mesh has a loaded texture and UV arrays.
Textured(mesh) ==
    /\ ~mesh.shader.image_ptr.null
    /\ ~mesh.shader.image_ptr.data.null
    /\ ~mesh.st.coords.null
    /\ ~mesh.st.indices.null

\* C1: once render has returned on fresh buffers, every pixel whose centre
\* at least one triangle of the scene covers holds, in the depth buffer, the
\* least of the depths the covering triangles have at that centre.
C1_DepthIsLeastCoveringDepth ==
    (pc = "draw" /\ first) =>
       \A k \in Pixels :
          LET zs == {DepthAt(p, k) : p \in {q \in ScenePoints : CoversPixel(q, k)}}
          IN  zs # {} =>
                 \E z \in zs : /\ depth_buffer[k] = z
                               /\ \A y \in zs : ~RLt(y, z)

\* C2: when the scene is one textured triangle that projects inside the
\* viewport, in front of the far plane, render on fresh buffers writes the
\* depth and the colour of exactly the pixels whose centre the triangle
\* covers, and leaves every other pixel at the far depth and colour 0.
C2_SingleTriangleShadesCoveredPixels ==
    (/\ pc = "draw" /\ first
     /\ Len(meshes) = 1
     /\ meshes[1].num_triangles = 1
     /\ Textured(meshes[1])
     /\ InViewport(RasterPoints(context, meshes[1], 0))) =>
       LET cov == {k \in Pixels : CoversPixel(RasterPoints(context, meshes[1], 0), k)}
       IN  /\ last.depthWrites = cov
           /\ last.colorWrites = cov
           /\ \A k \in Pixels \ cov :
                 depth_buffer[k] = context.zfar /\ color_buffer[k] = 0

\* C3: a triangle whose depth at a covered pixel centre equals the depth the
\* buffer already holds there changes neither the depth nor the colour of
\* that pixel: the earlier triangle in render order keeps the pixel.
C3_EqualDepthKeepsEarlier ==
    [][HasTriangle =>
          \A p \in {CurPoints} : \A k \in Pixels :
             (CoversPixel(p, k) /\ DepthAt(p, k) = depth_buffer[k]) =>
                /\ depth_buffer'[k] = depth_buffer[k]
                /\ color_buffer'[k] = color_buffer[k]]_vars

\* C3 happens: the last triangle step, of the second mesh, met a pixel that
\* a mesh with another texture had coloured at exactly its own depth.
C3_EqualDepthMet ==
    /\ last.i = 1
    /\ Textured(meshes[1]) /\ Textured(meshes[2])
    /\ meshes[1].shader.image_ptr.data # meshes[2].shader.image_ptr.data
    /\ \E k \in last.ties :
          /\ CoversPixel(last.p, k)
          /\ DepthAt(last.p, k) = depth_buffer[k]
          /\ color_buffer[k] \in
                {meshes[1].shader.image_ptr.data.arr[n] :
                   n \in DOMAIN meshes[1].shader.image_ptr.data.arr}

\* C4: whenever render is entered, every depth is the far value and every
\* colour is 0.
C4_BuffersFreshAtFrameStart ==
    (pc = "render" /\ i = 0 /\ j = 0) =>
       \A k \in Pixels : depth_buffer[k] = context.zfar /\ color_buffer[k] = 0

\* C5: a triangle whose raster bounding box does not meet the image is
\* rejected: its step changes neither buffer and does not evaluate the
\* inverse of the triangle's area.
C5_OutsideTriangleRejected ==
    [][(HasTriangle /\ \E p \in {CurPoints} : OutsideImage(p)) =>
          /\ depth_buffer' = depth_buffer
          /\ color_buffer' = color_buffer
          /\ last'.rejected
          /\ last'.divArea = "none"]_vars

\* C5 happens: the last triangle step was of a triangle outside the image,
\* and render went on to the next triangle.
C5_OutsideTriangleStepped ==
    /\ last.i >= 0
    /\ OutsideImage(last.p)
    /\ last.rejected
    /\ pc = "render" /\ i = last.i /\ j = last.j + 1

\* C6: a triangle of zero area that is not rejected by its bounding box is
\* skipped: its step does not divide by the area and writes neither buffer.
C6_DegenerateSkippedWithoutDivision ==
    (/\ last.i >= 0
     /\ ~last.rejected
     /\ RIsZero(edge(last.p[1], last.p[2], last.p[3]))) =>
       /\ last.divArea = "none"
       /\ last.depthWrites = {}
       /\ last.colorWrites = {}

\* C7: every texel shade reads from a loaded texture has 0 <= x <= width - 1
\* and 0 <= y <= height - 1.
C7_TexelCoordinatesClamped ==
    \A r \in last.texelReads :
       ~r.texel.null =>
          /\ 0 <= r.texel.x /\ r.texel.x <= r.texel.width - 1
          /\ 0 <= r.texel.y /\ r.texel.y <= r.texel.height - 1

\* C8: a triangle step of a mesh whose texture data pointer is null reads no
\* texel and leaves the colour buffer as it was.
C8_NullTextureDataNotRead ==
    (last.i >= 0 /\ meshes[last.i + 1].shader.image_ptr.data.null) =>
       /\ last.texelReads = {}
       /\ last.colorWrites = {}
       /\ last.faults = {}
       /\ ~last.crashed

\* C9: a triangle step of a mesh whose UV arrays are null reads no element
\* of them.
C9_NullUVArraysNotRead ==
    (/\ last.i >= 0
     /\ meshes[last.i + 1].st.coords.null
     /\ meshes[last.i + 1].st.indices.null) =>
       /\ ~last.uvRead
       /\ ~last.uvNull
       /\ ~last.crashed

\* C10: the mesh create_mesh returns has 3 * num_triangles vertex indices
\* and as many UV indices, every vertex index is an index of the vertex
\* array, and every UV index is an index of the UV array.
C10_MeshIndexArraysConsistent ==
    pc = "created" =>
       LET mesh == meshes[1]
           fvi == mesh.face_vertex_indices.arr
           sti == mesh.st.indices.arr
       IN  /\ Len(fvi) = 3 * mesh.num_triangles
           /\ Len(sti) = 3 * mesh.num_triangles
           /\ \A n \in DOMAIN fvi : 0 <= fvi[n] /\ fvi[n] < Len(mesh.points.arr)
           /\ \A n \in DOMAIN sti : 0 <= sti[n] /\ sti[n] < Len(mesh.st.coords.arr)

\* ------------------------------------------------- single calls
\* The struct image handed to set_texture: its fields as the caller left
\* them, data null or pointing at an earlier texture.
PriorImages ==
    {[null |-> FALSE, width |-> u, height |-> u, data |-> d] :
       u \in {0, 2}, d \in {NullPtr, Ptr(<<9, 9, 9, 9>>)}}

\* Texture files and the sizes asked for: files that cannot be opened, and
\* files of 0 to 5 bytes.
TextureRequests ==
    {[file |-> [exists |-> e, bytes |-> SubSeq(<<1, 2, 3, 4, 5>>, 1, n)],
      width |-> w, height |-> h] :
       e \in BOOLEAN, n \in 0 .. 5, w \in 1 .. 2, h \in 1 .. 2}

SetTextureCalls ==
    {[op |-> "set_texture", image |-> im, tex |-> t] :
       im \in PriorImages, t \in TextureRequests}

\* Camera-space points handed to persp_divide: in front of the camera, behind
\* it, closer to its plane than 1e-6, and on its plane (z = +0).
PerspDivideCalls ==
    {[op |-> "persp_divide", p |-> <<I(x), I(y), z>>, znear |-> I(n)] :
       x \in -1 .. 1, y \in -1 .. 1,
       z \in {I(-2), I(-1), R(-1, 10000000), I(0), I(1)}, n \in 1 .. 2}

\* The triangles of the textured meshes, each with two of its corners to
\* swap, rendered onto fresh buffers.
SwapCalls ==
    {[op |-> "swap", input |-> m, tri |-> t, swap |-> sw, ub |-> ub] :
       m \in {MeshInput(ObjBig, TexA, 0), MeshInput(ObjPair, TexA, 0),
              MeshInput(ObjSliver, TexA, 0), MeshInput(ObjMisc, TexB, 0),
              MeshInput(ObjWideUV, TexA, 0)},
       t \in 0 .. 3, sw \in {<<2, 1, 3>>, <<1, 3, 2>>, <<3, 2, 1>>},
       ub \in UBChoices}

Calls ==
    SetTextureCalls \cup PerspDivideCalls \cup
    {c \in SwapCalls : 3 * c.tri < Len(ParseObj(c.input.lines).face_indices)}

InitCalls ==
    /\ context = context_init([width |-> Width, height |-> Height], Camera)
    /\ depth_buffer = prepare_buffers(context).depth_buffer
    /\ color_buffer = prepare_buffers(context).color_buffer
    /\ inputs = <<>>
    /\ meshes = <<>>
    /\ lineNo = 0
    /\ objData = EmptyObjData
    /\ pc = "call"
    /\ i = 0
    /\ j = 0
    /\ first = TRUE
    /\ image = [k \in 0 .. ArraySize(context) - 1 |-> 0]
    /\ last = NoStep
    /\ call \in Calls
    /\ result = NoCall
    /\ heap = NoHeap

\* f = malloc(...), which fails when fails is true.
Malloc(h, f, fails) ==
    IF h.dead THEN h
    ELSE IF fails THEN [h EXCEPT !.ptr[f] = "null"]
    ELSE [h EXCEPT !.ptr[f] = "block", !.alloc[f] = TRUE]

\* f = NULL.
SetNull(h, f) == IF h.dead THEN h ELSE [h EXCEPT !.ptr[f] = "null"]

\* free(f).  Freeing a block again, or an uninitialised pointer, is undefined:
\* the process dies (crash) or goes on.
Free(h, f, crash) ==
    IF h.dead \/ h.ptr[f] = "null" THEN h
    ELSE IF h.ptr[f] = "uninit"
    THEN [h EXCEPT !.bad = @ \cup {<<"free of an uninitialised pointer", f>>},
                   !.dead = crash]
    ELSE IF h.frees[f] = 0 THEN [h EXCEPT !.frees[f] = 1]
    ELSE [h EXCEPT !.frees[f] = @ + 1,
                   !.bad = @ \cup {<<"double free", f>>},
                   !.dead = crash]

\* A read through the pointer f, undefined unless f points at a live block.
Deref(h, f, crash) ==
    IF h.dead \/ (h.ptr[f] = "block" /\ h.frees[f] = 0) THEN h
    ELSE [h EXCEPT !.bad = @ \cup {<<"read through an invalid pointer", f>>},
                   !.dead = crash]

RECURSIVE FreeAll(_, _, _)
FreeAll(h, fs, crash) ==
    IF fs = <<>> THEN h ELSE FreeAll(Free(h, Head(fs), crash), Tail(fs), crash)

\* prepare_buffers, where the allocation named fail (if any) fails.
prepare_buffers_heap(h, fail, crash) ==
    LET h1 == Malloc(h, "depth_buffer", fail = "depth_buffer")
    IN  IF fail = "depth_buffer" THEN h1
        ELSE LET h2 == Malloc(h1, "color_buffer", fail = "color_buffer")
             IN  IF fail = "color_buffer" THEN Free(h2, "depth_buffer", crash)
                 ELSE h2

\* The heap effects of set_texture on the image of the mesh.
set_texture_heap(h, fail, tex, crash) ==
    IF ~tex.file.exists THEN h
    ELSE LET h1 == Malloc(h, "data", fail = "data")
         IN  IF fail = "data" THEN h1
             ELSE IF Len(tex.file.bytes) < tex.width * tex.height
             THEN SetNull(Free(h1, "data", crash), "data")
             ELSE h1

\* create_mesh, where the allocation named fail (if any) fails; hasUv is
\* !objData.uvs.empty().
create_mesh_heap(h, fail, hasUv, tex, crash) ==
    LET a1 == Malloc(h, "points", fail = "points")
        a2 == Malloc(a1, "face_vertex_indices", fail = "face_vertex_indices")
        a3 == IF hasUv THEN Malloc(a2, "coords", fail = "coords")
              ELSE SetNull(SetNull(a2, "coords"), "indices")
        a4 == IF hasUv THEN Malloc(a3, "indices", fail = "indices") ELSE a3
        a5 == Malloc(a4, "shader", fail = "shader")
        a6 == Malloc(a5, "image_ptr", fail = "image_ptr")
    IN  IF fail = "points" THEN a1
        ELSE IF fail = "face_vertex_indices" THEN FreeAll(a2, <<"points">>, crash)
        ELSE IF hasUv /\ fail = "coords"
        THEN FreeAll(a3, <<"points", "face_vertex_indices">>, crash)
        ELSE IF hasUv /\ fail = "indices"
        THEN FreeAll(a4, <<"points", "face_vertex_indices", "coords">>, crash)
        ELSE IF fail = "shader"
        THEN FreeAll(a5, <<"points", "face_vertex_indices", "coords", "indices">>, crash)
        ELSE IF fail = "image_ptr"
        THEN FreeAll(a6, <<"shader", "points", "face_vertex_indices", "coords",
                           "indices">>, crash)
        ELSE set_texture_heap(SetNull(a6, "data"), fail, tex, crash)

\* destroy_mesh.
destroy_mesh(h, crash) ==
    LET h1 == FreeAll(h, <<"points", "face_vertex_indices", "coords", "indices">>, crash)
        h2 == Deref(Deref(h1, "shader", crash), "image_ptr", crash)
    IN  FreeAll(h2, <<"data", "image_ptr", "shader">>, crash)

\* cleanup.
cleanup(h, crash) == Free(h, "depth_buffer", crash)

\* set_texture(call.image, ...) runs and returns.
SetTexture ==
    /\ pc = "call"
    /\ call.op = "set_texture"
    /\ result' = [op |-> "set_texture",
                  image |-> set_texture(call.image, call.tex.file, call.tex.width,
                                        call.tex.height)]
    /\ pc' = "returned"
    /\ UNCHANGED <<context, depth_buffer, color_buffer, meshes, inputs, lineNo, objData,
                   i, j, first, image, last, call, heap>>

\* The float 1.0f / -p->z and the products p->x * inv_z * znear of
\* persp_divide, for every p.z: when p.z is +0 the divisor is -0, inv_z is
\* -infinity, and a product is an infinity, or NaN where the coordinate is 0.
PerspDivisor(p) == RNeg(p[3])

persp_divide_ieee(p, znear) ==
    IF ~RIsZero(PerspDivisor(p))
    THEN [k |-> <<"fin", "fin", "fin">>, p |-> persp_divide(p, znear)]
    ELSE [k |-> <<Weight(p[1], [k |-> "ninf", v |-> I(0)]).k,
                  Weight(p[2], [k |-> "ninf", v |-> I(0)]).k, "fin">>,
          p |-> <<I(0), I(0), I(0)>>]

\* persp_divide(&call.p, call.znear) runs and returns.
PerspDivide ==
    /\ pc = "call"
    /\ call.op = "persp_divide"
    /\ result' = [op |-> "persp_divide",
                  divisor |-> PerspDivisor(call.p),
                  out |-> persp_divide_ieee(call.p, call.znear)]
    /\ pc' = "returned"
    /\ UNCHANGED <<context, depth_buffer, color_buffer, meshes, inputs, lineNo, objData,
                   i, j, first, image, last, call, heap>>

\* The mesh with the corners of triangle t listed in the order sw.
SwapCorners(mesh, t, sw) ==
    [mesh EXCEPT
       !.face_vertex_indices.arr =
          [k \in DOMAIN @ |->
             IF k > 3 * t /\ k <= 3 * t + 3 THEN @[3 * t + sw[k - 3 * t]] ELSE @[k]],
       !.st.indices.arr =
          [k \in DOMAIN @ |->
             IF k > 3 * t /\ k <= 3 * t + 3 THEN @[3 * t + sw[k - 3 * t]] ELSE @[k]]]

\* render's iteration for triangle call.tri, on fresh buffers, of the mesh
\* as imported and of the mesh with two corners of the triangle swapped.
RenderSwapped ==
    /\ pc = "call"
    /\ call.op = "swap"
    /\ \E mesh \in {create_mesh(context, ParseObj(call.input.lines), call.input.tex,
                                call.input.uninit)} :
          result' = [op |-> "swap",
                     asGiven |-> RenderBody(context, mesh, call.tri, depth_buffer,
                                            color_buffer, call.ub),
                     swapped |-> RenderBody(context,
                                            SwapCorners(mesh, call.tri, call.swap),
                                            call.tri, depth_buffer, color_buffer,
                                            call.ub)]
    /\ pc' = "returned"
    /\ UNCHANGED <<context, depth_buffer, color_buffer, meshes, inputs, lineNo, objData,
                   i, j, first, image, last, call, heap>>

NextCalls ==
    \/ SetTexture
    \/ PerspDivide
    \/ RenderSwapped

SpecCalls == InitCalls /\ [][NextCalls]_vars

\* C11: when set_texture returns after a failed load (the file could not be
\* opened, or held fewer than width * height bytes), the data pointer of the
\* image is null, whatever it was before the call.
C11_FailedLoadLeavesDataNull ==
    (/\ pc = "returned"
     /\ result.op = "set_texture"
     /\ \/ ~call.tex.file.exists
        \/ Len(call.tex.file.bytes) < call.tex.width * call.tex.height) =>
       result.image.data.null

\* ---------------------------------------- lifecycle of the buffers
\* One run of main() without its frames: which allocation of
\* prepare_buffers and which of create_mesh fails (if any), whether the OBJ
\* file has "vt" lines, the texture file, and whether an invalid free or
\* read ends the process.
Lifecycles ==
    {[op |-> "lifecycle", failBuffers |-> fb, failMesh |-> fm, hasUv |-> uv,
      tex |-> t, crash |-> c] :
       fb \in {"none", "depth_buffer", "color_buffer"},
       fm \in {f \in Fields \cup {"none"} : f \notin {"depth_buffer", "color_buffer"}},
       uv \in BOOLEAN, t \in {TexA, TexShort, TexMissing}, c \in BOOLEAN}

InitLifecycle ==
    /\ context = context_init([width |-> Width, height |-> Height], Camera)
    /\ depth_buffer = prepare_buffers(context).depth_buffer
    /\ color_buffer = prepare_buffers(context).color_buffer
    /\ inputs = <<>>
    /\ meshes = <<>>
    /\ lineNo = 0
    /\ objData = EmptyObjData
    /\ pc = "start"
    /\ i = 0
    /\ j = 0
    /\ first = TRUE
    /\ image = [k \in 0 .. ArraySize(context) - 1 |-> 0]
    /\ last = NoStep
    /\ call \in {l \in Lifecycles :
                   /\ l.failMesh \in {"coords", "indices"} => l.hasUv
                   /\ l.failMesh = "data" => l.tex.file.exists}
    /\ result = NoCall
    /\ heap = NoHeap

\* main: prepare_buffers(&context).
PrepareBuffers ==
    /\ pc = "start"
    /\ heap' = prepare_buffers_heap(heap, call.failBuffers, call.crash)
    /\ pc' = "buffers"
    /\ UNCHANGED <<context, depth_buffer, color_buffer, meshes, inputs, lineNo, objData,
                   i, j, first, image, last, call, result>>

\* main: create_mesh(&context, meshes[0], ...).
BuildMesh ==
    /\ pc = "buffers"
    /\ ~heap.dead
    /\ heap' = create_mesh_heap(heap, call.failMesh, call.hasUv, call.tex, call.crash)
    /\ pc' = "mesh"
    /\ UNCHANGED <<context, depth_buffer, color_buffer, meshes, inputs, lineNo, objData,
                   i, j, first, image, last, call, result>>

\* main: cleanup(&context).
Cleanup ==
    /\ pc = "mesh"
    /\ ~heap.dead
    /\ heap' = cleanup(heap, call.crash)
    /\ pc' = "cleaned"
    /\ UNCHANGED <<context, depth_buffer, color_buffer, meshes, inputs, lineNo, objData,
                   i, j, first, image, last, call, result>>

\* main: destroy_mesh(meshes[0]).
DestroyMesh ==
    /\ pc = "cleaned"
    /\ ~heap.dead
    /\ heap' = destroy_mesh(heap, call.crash)
    /\ pc' = "exit"
    /\ UNCHANGED <<context, depth_buffer, color_buffer, meshes, inputs, lineNo, objData,
                   i, j, first, image, last, call, result>>

NextLifecycle ==
    \/ PrepareBuffers
    \/ BuildMesh
    \/ Cleanup
    \/ DestroyMesh

SpecLifecycle == InitLifecycle /\ [][NextLifecycle]_vars

\* C12: no free and no read goes through a freed or uninitialised pointer,
\* and when main has called cleanup and destroy_mesh every block malloc
\* handed out has been freed exactly once.
C12_EveryBlockFreedOnce ==
    /\ heap.bad = {}
    /\ pc = "exit" => \A f \in Fields : heap.alloc[f] => heap.frees[f] = 1

\* C13: no step of render or of the frame driver changes a mesh: every
\* camera-space position, vertex index, texture coordinate and UV index
\* keeps the value create_mesh gave it.
C13_MeshesNeverChange == [][meshes' = meshes]_vars

\* C13 happens: render has returned a second time, having projected and
\* rasterized the triangles of a textured mesh in both calls.
C13_RenderedTwice ==
    /\ pc = "draw"
    /\ ~first
    /\ \E m \in DOMAIN meshes : Textured(meshes[m]) /\ meshes[m].num_triangles > 0
    /\ \E k \in Pixels : color_buffer[k] # 0 /\ depth_buffer[k] # context.zfar

\* Vectors of three fractions.
VSub(a, b) == <<RSub(a[1], b[1]), RSub(a[2], b[2]), RSub(a[3], b[3])>>

Dot(a, b) == RAdd(RAdd(RMul(a[1], b[1]), RMul(a[2], b[2])), RMul(a[3], b[3]))

Cross(a, b) ==
    <<RSub(RMul(a[2], b[3]), RMul(a[3], b[2])),
      RSub(RMul(a[3], b[1]), RMul(a[1], b[3])),
      RSub(RMul(a[1], b[2]), RMul(a[2], b[1]))>>

\* The camera-space direction of the ray through the centre of pixel
\* (col, row): the raster point taken back to the image plane z = -znear.
SampleRay(col, row) ==
    LET sc == context.screen_coordinates
        ndcx == RSub(RDiv(RAdd(I(2 * col), I(1)), I(context.extent.width)), I(1))
        ndcy == RSub(I(1), RDiv(RAdd(I(2 * row), I(1)), I(context.extent.height)))
    IN  <<RDiv(RAdd(RMul(ndcx, RSub(sc.r, sc.l)), RAdd(sc.r, sc.l)), I(2)),
          RDiv(RAdd(RMul(ndcy, RSub(sc.t, sc.b)), RAdd(sc.t, sc.b)), I(2)),
          RNeg(context.znear)>>

\* The UV at the camera-space point where the ray d meets the plane of the
\* triangle with camera-space corners v and corner UVs uv.  That point is
\* t * d = l0 * v[1] + l1 * v[2] + l2 * v[3] with l0 + l1 + l2 = 1, its
\* barycentric coordinates; by Cramer's rule they are the determinants with
\* one corner replaced by d, over their sum.
Det(a, b, c) == Dot(a, Cross(b, c))

CameraSpaceUV(v, uv, d) ==
    LET d0 == Det(d, v[2], v[3])
        d1 == Det(v[1], d, v[3])
        d2 == Det(v[1], v[2], d)
        sum == RAdd(RAdd(d0, d1), d2)
        l0 == RDiv(d0, sum)
        l1 == RDiv(d1, sum)
        l2 == RDiv(d2, sum)
    IN  <<RAdd(RAdd(RMul(l0, uv[1][1]), RMul(l1, uv[2][1])), RMul(l2, uv[3][1])),
          RAdd(RAdd(RMul(l0, uv[1][2]), RMul(l1, uv[2][2])), RMul(l2, uv[3][2]))>>

\* The UV that linear interpolation in raster space gives at the centre of
\* pixel k of a triangle with raster corners p.
ScreenSpaceUV(p, uv, k) ==
    LET area == edge(p[1], p[2], p[3])
        b0 == RDiv(edge(p[2], p[3], Centre(k)), area)
        b1 == RDiv(edge(p[3], p[1], Centre(k)), area)
        b2 == RDiv(edge(p[1], p[2], Centre(k)), area)
    IN  <<RAdd(RAdd(RMul(b0, uv[1][1]), RMul(b1, uv[2][1])), RMul(b2, uv[3][1])),
          RAdd(RAdd(RMul(b0, uv[1][2]), RMul(b1, uv[2][2])), RMul(b2, uv[3][2]))>>

\* The camera-space corners and the corner UVs of triangle t of mesh.
CornerPoints(mesh, t) ==
    [m \in 1 .. 3 |-> mesh.points.arr[mesh.face_vertex_indices.arr[3 * t + m] + 1]]

CornerUVs(mesh, t) ==
    [m \in 1 .. 3 |-> mesh.st.coords.arr[mesh.st.indices.arr[3 * t + m] + 1]]

\* The last step was of a triangle whose UVs render could read.
LastHasUVs == last.i >= 0 /\ last.uvRead /\ ~last.uvFault

\* C14: at every pixel the last triangle step shaded, the UV rasterize
\* interpolated equals the barycentric interpolation of the corner UVs at
\* the camera-space point of the triangle that projects onto the pixel
\* centre; when the three corners carry the same UV, it is that UV.
C14_PerspectiveCorrectUV ==
    LastHasUVs =>
       \A v \in {CornerPoints(meshes[last.i + 1], last.j)} :
       \A uv \in {CornerUVs(meshes[last.i + 1], last.j)} :
       \A r \in last.shaded :
          /\ r.st.k = "fin"
          /\ <<r.st.s, r.st.t>> = CameraSpaceUV(v, uv, SampleRay(r.col, r.row))
          /\ (uv[1] = uv[2] /\ uv[2] = uv[3]) => <<r.st.s, r.st.t>> = uv[1]

\* C14 happens: the last step shaded a pixel of a triangle whose corners
\* have different depths and different UVs, where the UV differs from the
\* one linear interpolation in raster space gives.
C14_TiltedTriangleShaded ==
    /\ LastHasUVs
    /\ last.p[1][3] # last.p[2][3]
    /\ \E r \in last.shaded :
          /\ r.st.k = "fin"
          /\ <<r.st.s, r.st.t>> #
                ScreenSpaceUV(last.p, CornerUVs(meshes[last.i + 1], last.j), r.index)

\* C15: the divisor persp_divide uses is at least 1e-6 in magnitude, so it
\* is never zero and the divided point is finite.
C15_DivideClampsDepth ==
    (pc = "returned" /\ result.op = "persp_divide") =>
       /\ ~RLt(<<Abs(result.divisor[1]), result.divisor[2]>>, R(1, 1000000))
       /\ \A m \in 1 .. 3 : result.out.k[m] = "fin"

\* C16: every pixel a triangle step writes is a pixel (col, row) of the
\* image at index row * width + col, the step changes the buffers nowhere
\* else, and it writes a colour only where it strictly lowers the depth.
C16_WritesInsideImage ==
    [][HasTriangle =>
          /\ DOMAIN depth_buffer' = Pixels /\ DOMAIN color_buffer' = Pixels
          /\ \A r \in last'.shaded :
                /\ 0 <= r.col /\ r.col < context.extent.width
                /\ 0 <= r.row /\ r.row < context.extent.height
                /\ r.index = r.row * context.extent.width + r.col
          /\ last'.depthWrites = {r.index : r \in last'.shaded}
          /\ last'.colorWrites \subseteq last'.depthWrites
          /\ \A k \in Pixels :
                /\ depth_buffer'[k] # depth_buffer[k] => k \in last'.depthWrites
                /\ (color_buffer'[k] # color_buffer[k] \/ k \in last'.colorWrites) =>
                      RLt(depth_buffer'[k], depth_buffer[k])]_vars

\* C16 happens: the last step wrote colours for a triangle that passed the
\* rejection test and whose bounding box extends past the four edges of the
\* image.
C16_EdgeCrossingTriangleWritten ==
    /\ last.i >= 0
    /\ ~last.rejected
    /\ last.colorWrites # {}
    /\ \E bbox \in {tri_bbox(last.p[1], last.p[2], last.p[3])} :
          /\ RLt(bbox[1], I(0)) /\ RLt(bbox[2], I(0))
          /\ RGt(bbox[3], I(context.extent.width))
          /\ RGt(bbox[4], I(context.extent.height))

\* C17: no step ever raises a depth, and after the first call of render has
\* returned no step changes the depth buffer or the colour buffer: every
\* later call of render leaves both as the first call left them.
C17_RenderIdempotent ==
    [][/\ \A k \in Pixels : ~RGt(depth_buffer'[k], depth_buffer[k])
       /\ ~first => (depth_buffer' = depth_buffer /\ color_buffer' = color_buffer)]_vars

\* C17 happens: render has processed, in a second call, a triangle that
\* covers pixels the first call wrote.
C17_SecondCallStepped ==
    /\ ~first
    /\ pc = "render"
    /\ last.i >= 0
    /\ last.covered # {}
    /\ \E k \in last.covered : depth_buffer[k] # context.zfar /\ color_buffer[k] # 0

\* C18: for a triangle of non-zero area, rendering it with two corners
\* swapped covers the same pixels and writes the same depths as rendering
\* it as given.
C18_WindingIndependent ==
    (/\ pc = "returned"
     /\ result.op = "swap"
     /\ ~RIsZero(edge(result.asGiven.p[1], result.asGiven.p[2], result.asGiven.p[3]))) =>
       /\ result.swapped.rejected = result.asGiven.rejected
       /\ result.swapped.raster.covered = result.asGiven.raster.covered
       /\ result.swapped.raster.depthWrites = result.asGiven.raster.depthWrites
       /\ result.swapped.raster.depth_buffer = result.asGiven.raster.depth_buffer

\* C18 happens: a triangle tilted in depth was rendered in both windings,
\* the signs of the two areas are opposite, and depths were written.
C18_BothWindingsRendered ==
    /\ pc = "returned"
    /\ result.op = "swap"
    /\ result.asGiven.p[1][3] # result.asGiven.p[2][3]
    /\ RSign(edge(result.asGiven.p[1], result.asGiven.p[2], result.asGiven.p[3])) =
          -RSign(edge(result.swapped.p[1], result.swapped.p[2], result.swapped.p[3]))
    /\ result.asGiven.raster.depthWrites # {}
    /\ ~result.asGiven.raster.crashed

====
